---- MODULE Spec2Model ----
(***************************************************************************)
(* Model of cluster.py: similarity enhancement, the segment merger         *)
(* (assign_segments), the RTTM serializer, make_rttm with the              *)
(* hyperparameter sweep, and the corpus aggregator (sort_and_cat).         *)
(*                                                                         *)
(* Times.  A time value t of the model stands for t/2 seconds.  Segment    *)
(* boundaries read from the segment table are whole seconds (even t), so   *)
(* every sum of two boundaries is even and the midpoint (a + b)/2. of the  *)
(* code is the exact integer (a + b) \div 2; halves of seconds are exact   *)
(* binary floating point numbers, so the code's float arithmetic on these  *)
(* values is exact as well.                                                *)
(***************************************************************************)
EXTENDS Integers, Sequences, FiniteSets, TLC

VARIABLES
    pred_labels,   \* assign_segments: labels consumed so far by the scan
    events,        \* assign_segments: segments (start, end) consumed so far
    entries,       \* assign_segments: the list of merged intervals
    rttm_entries,  \* rttm_lines_from_entries: argument entries
    rec_id,        \* rttm_lines_from_entries: argument rec_id
    lines,         \* rttm_lines_from_entries: returned list of lines
    matrix,        \* sim_enhancement: argument matrix
    enhanced,      \* sim_enhancement: returned matrix
    rttms,         \* sort_and_cat: the input files, each a list of lines
    final_lines,   \* sort_and_cat: returned list of lines
    segment_cols,  \* make_rttm: the loaded segment table, one row per segment
    cids,          \* __main__: recording ids of the loaded matrices
    cm,            \* __main__: the loaded matrices (their sizes), aligned with cids
    ctype,         \* __main__: args.cluster_type
    files,         \* the file system: one hyp.rttm path per sweep value
    sweep_i,       \* __main__: position of the sweep loop in cparam_range
    rec_i,         \* make_rttm: position of the loop over zip(cids, cm)
    log,           \* history: per path, the lines_to_file calls of make_rttm
    pc             \* position of the operation under study

mergeVars == <<pred_labels, events, entries>>
rttmVars  == <<rttm_entries, rec_id, lines>>
enhVars   == <<matrix, enhanced>>
catVars   == <<rttms, final_lines>>
inputVars == <<segment_cols, cids, cm, ctype>>
pipeVars  == <<segment_cols, cids, cm, ctype, files, sweep_i, rec_i, log>>

vars == <<pred_labels, events, entries, rttm_entries, rec_id, lines,
          matrix, enhanced, rttms, final_lines,
          segment_cols, cids, cm, ctype, files, sweep_i, rec_i, log, pc>>

(***************************************************************************)
(* Bounds                                                                  *)
(***************************************************************************)
MaxSegs == 3       \* longest (labels, segments) input of assign_segments
MaxTime == 3       \* latest segment boundary, in seconds
MaxEntries == 2    \* longest interval list given to rttm_lines_from_entries
MaxStamp == 3      \* largest interval bound given to it, in half seconds
MaxDim == 2        \* largest similarity matrix is MaxDim x MaxDim
MaxVal == 2        \* similarity entries are 0 .. MaxVal
MaxLines == 3      \* most lines in all files given to sort_and_cat
MaxFiles == 2      \* most files given to sort_and_cat
MaxRows == 2       \* most rows of the segment table
MaxRecs == 2       \* most similarity matrices found by the glob
SweepLen == 1      \* sweep values of 'ahc'; 'sc' has one more (9 and 10 in the code)

\* Cluster ids.  The merger only tests two ids for equality (line 87), so two
\* ids reach every branch.
Labels == {0, 1}
GridTimes == {2 * k : k \in 0 .. MaxTime}
\* A segment is a pair (start, end) of the segment table with start <= end.
Segments == {ev \in GridTimes \X GridTimes : ev[1] <= ev[2]}

(***************************************************************************)
(* assign_segments (cluster.py 75-96)                                      *)
(***************************************************************************)
Entry(start, end, plabel) == [s |-> start, e |-> end, id |-> plabel]

\* Variants of the loop body with one slip each.
\* Gap test written <= instead of < (line 83).
AssignStep_GapLeq(ents, plabel, ev) ==
    LET start == ev[1]
        end   == ev[2]
        n     == Len(ents)
    IN  IF ents = <<>>
        THEN Append(ents, Entry(start, end, plabel))
        ELSE IF ents[n].e <= start
             THEN Append(ents, Entry(start, end, plabel))
             ELSE IF ents[n].id = plabel
                  THEN [ents EXCEPT ![n].e = end]
                  ELSE LET fuzzy_start == (ents[n].e + start) \div 2
                       IN  Append([ents EXCEPT ![n].e = fuzzy_start],
                                  Entry(fuzzy_start, end, plabel))

\* New interval opened at the raw segment start instead of the midpoint (line 94).
AssignStep_RawStart(ents, plabel, ev) ==
    LET start == ev[1]
        end   == ev[2]
        n     == Len(ents)
    IN  IF ents = <<>>
        THEN Append(ents, Entry(start, end, plabel))
        ELSE IF ents[n].e < start
             THEN Append(ents, Entry(start, end, plabel))
             ELSE IF ents[n].id = plabel
                  THEN [ents EXCEPT ![n].e = end]
                  ELSE LET fuzzy_start == (ents[n].e + start) \div 2
                       IN  Append([ents EXCEPT ![n].e = fuzzy_start],
                                  Entry(start, end, plabel))

\* Midpoint taken from the open interval's start instead of its end (line 92).
AssignStep_MidOfStart(ents, plabel, ev) ==
    LET start == ev[1]
        end   == ev[2]
        n     == Len(ents)
    IN  IF ents = <<>>
        THEN Append(ents, Entry(start, end, plabel))
        ELSE IF ents[n].e < start
             THEN Append(ents, Entry(start, end, plabel))
             ELSE IF ents[n].id = plabel
                  THEN [ents EXCEPT ![n].e = end]
                  ELSE LET fuzzy_start == (ents[n].s + start) \div 2
                       IN  Append([ents EXCEPT ![n].e = fuzzy_start],
                                  Entry(fuzzy_start, end, plabel))

\* Merge branch stores the segment's start as the new end (line 88).
AssignStep_MergeStart(ents, plabel, ev) ==
    LET start == ev[1]
        end   == ev[2]
        n     == Len(ents)
    IN  IF ents = <<>>
        THEN Append(ents, Entry(start, end, plabel))
        ELSE IF ents[n].e < start
             THEN Append(ents, Entry(start, end, plabel))
             ELSE IF ents[n].id = plabel
                  THEN [ents EXCEPT ![n].e = start]
                  ELSE LET fuzzy_start == (ents[n].e + start) \div 2
                       IN  Append([ents EXCEPT ![n].e = fuzzy_start],
                                  Entry(fuzzy_start, end, plabel))

\* One iteration of the loop body, lines 78-95.
AssignStep(ents, plabel, ev) ==
    LET start == ev[1]
        end   == ev[2]
        n     == Len(ents)
    IN  IF ents = <<>>
        THEN Append(ents, Entry(start, end, plabel))
        ELSE IF ents[n].e < start
             THEN Append(ents, Entry(start, end, plabel))
             ELSE IF ents[n].id = plabel
                  THEN [ents EXCEPT ![n].e = end]
                  ELSE LET fuzzy_start == (ents[n].e + start) \div 2
                       IN  Append([ents EXCEPT ![n].e = fuzzy_start],
                                  Entry(fuzzy_start, end, plabel))

Min(a, b) == IF a <= b THEN a ELSE b

RECURSIVE AssignFrom(_, _, _, _)
AssignFrom(ents, labels, evs, i) ==
    IF i > Min(Len(labels), Len(evs))
    THEN ents
    ELSE AssignFrom(AssignStep(ents, labels[i], evs[i]), labels, evs, i + 1)

\* The whole function: entries = [] then the scan over zip(pred_labels, events).
assign_segments(labels, evs) == AssignFrom(<<>>, labels, evs, 1)

(***************************************************************************)
(* Specification of the merger: the scan consumes one (label, segment)     *)
(* pair per step; the caller may stop feeding pairs at any length.         *)
(***************************************************************************)
MergeIdle == pred_labels = <<>> /\ events = <<>> /\ entries = <<>>
RttmIdle  == rttm_entries = <<>> /\ rec_id = "" /\ lines = <<>>
EnhIdle   == matrix = <<>> /\ enhanced = <<>>
CatIdle   == rttms = <<>> /\ final_lines = <<>>
PipeIdle  ==
    /\ segment_cols = <<>> /\ cids = <<>> /\ cm = <<>> /\ ctype = ""
    /\ files = <<>> /\ sweep_i = 0 /\ rec_i = 0 /\ log = <<>>

InitMerge ==
    /\ pred_labels = <<>>
    /\ events = <<>>
    /\ entries = <<>>
    /\ pc = "scan"
    /\ RttmIdle /\ EnhIdle /\ CatIdle /\ PipeIdle

ScanStep ==
    /\ Len(events) < MaxSegs
    /\ \E plabel \in Labels, ev \in Segments :
          /\ pred_labels' = Append(pred_labels, plabel)
          /\ events' = Append(events, ev)
          /\ entries' = AssignStep(entries, plabel, ev)
    /\ UNCHANGED <<rttmVars, enhVars, catVars, pc, pipeVars>>

NextMerge == ScanStep

SpecMerge == InitMerge /\ [][NextMerge]_vars

\* The stepwise scan computes the function.
ScanIsFunction == entries = assign_segments(pred_labels, events)

\* The open interval always ends at a segment end, so every midpoint is the
\* half of an even sum.
OpenEndOnGrid == entries # <<>> => entries[Len(entries)].e \in GridTimes

(***************************************************************************)
(* rttm_lines_from_entries (cluster.py 98-107)                             *)
(***************************************************************************)
Digit(d) == <<"0", "1", "2", "3", "4", "5", "6", "7", "8", "9">>[d + 1]

\* str.format of a non-negative integer: its decimal digits.
RECURSIVE IntStr(_)
IntStr(n) == IF n < 10 THEN Digit(n) ELSE IntStr(n \div 10) \o Digit(n % 10)

Abs(x) == IF x < 0 THEN 0 - x ELSE x

\* '{:.3f}'.format(x) for x = t/2 seconds: sign, integer part, three decimals.
Fmt3(t) ==
    (IF t < 0 THEN "-" ELSE "")
        \o IntStr(Abs(t) \div 2) \o "." \o (IF Abs(t) % 2 = 0 THEN "000" ELSE "500")

\* A line of text: fields separated by single spaces, then the line terminator.
RECURSIVE JoinFields(_)
JoinFields(fields) ==
    IF Len(fields) = 1
    THEN fields[1]
    ELSE fields[1] \o " " \o JoinFields(Tail(fields))

LineText(fields) == JoinFields(fields) \o "\n"

\* Line 104.
Offset(entry) == entry.e - entry.s

\* Duration slot filled with the end time instead of end - start.
RttmLine_EndAsOffset(entry, rid) ==
    LineText(<<"SPEAKER", rid, "0", Fmt3(entry.s), Fmt3(entry.e),
               "<NA>", "<NA>", IntStr(entry.id), "<NA>", "<NA>">>)

\* Lines 101-105: the format string with its four slots filled.
RttmLine(entry, rid) ==
    LineText(<<"SPEAKER", rid, "0", Fmt3(entry.s), Fmt3(Offset(entry)),
               "<NA>", "<NA>", IntStr(entry.id), "<NA>", "<NA>">>)

rttm_lines_from_entries(ents, rid) ==
    [i \in 1 .. Len(ents) |-> RttmLine(ents[i], rid)]

(***************************************************************************)
(* Properties of the merger                                                *)
(***************************************************************************)
\* What the step just taken did, read off the two states.
Consumed   == Len(events') = Len(events) + 1
StepLabel  == pred_labels'[Len(pred_labels')]
StepStart  == events'[Len(events')][1]
StepEnd    == events'[Len(events')][2]
OpenEntry  == entries[Len(entries)]

SameIdGap ==
    \A i \in 1 .. (Len(entries) - 1) :
        entries[i].id = entries[i + 1].id => entries[i].e < entries[i + 1].s

GapOpens ==
    (Consumed /\ entries # <<>> /\ StepStart > OpenEntry.e)
        => entries' = Append(entries, Entry(StepStart, StepEnd, StepLabel))

\* C1: adjacent output intervals with the same id are separated by a strict
\* time gap (interval[i].end < interval[i+1].start), and a segment starting
\* strictly after the open interval's end always opens a new interval, also
\* when its label equals the open interval's id.
C1_GapSplits == [](SameIdGap) /\ [][GapOpens]_vars

\* Two adjacent intervals of one id exist: equal labels met across a gap.
C1_Witness ==
    \E i \in 1 .. (Len(entries) - 1) : entries[i].id = entries[i + 1].id

TimeOrdered ==
    \A i \in 1 .. (Len(entries) - 1) : entries[i].e <= entries[i + 1].s

ClosedFrozen ==
    \A i \in 1 .. (Len(entries) - 1) :
        /\ i <= Len(entries')
        /\ entries'[i] = entries[i]

\* C2: the output is time-ordered, interval[i].end <= interval[i+1].start for
\* all adjacent intervals, after every step of the scan; an interval that has
\* a successor is never changed again.
C2_TimeOrdered == [](TimeOrdered) /\ [][ClosedFrozen]_vars

\* Three intervals, the middle one closed by a midpoint and left untouched.
C2_Witness ==
    /\ Len(entries) = 3
    /\ entries[1].e = entries[2].s
    /\ entries[2].e = entries[3].s
    /\ entries[2].e % 2 = 1

MidpointRule ==
    (/\ Consumed
     /\ entries # <<>>
     /\ ~(StepStart > OpenEntry.e)
     /\ StepLabel # OpenEntry.id)
        => \E m \in 0 .. (2 * MaxTime) :
              /\ 2 * m = OpenEntry.e + StepStart
              /\ entries' = Append([entries EXCEPT ![Len(entries)].e = m],
                                   Entry(m, StepEnd, StepLabel))

ExampleInput ==
    /\ pred_labels = <<0, 0, 1>>
    /\ events = << <<0, 2>>, <<2, 4>>, <<4, 6>> >>

\* C3 (amended): on a segment that does not start after the open interval's
\* end and carries another label, the open interval's end and the new
\* interval's start both become the midpoint of (open end, segment start) and
\* the new interval ends at the segment's end; segments [(0,1),(1,2),(2,3)]
\* with labels [A,A,B] give [{0,2,A},{2,3,B}].
C3_Midpoint ==
    /\ [][MidpointRule]_vars
    /\ [](ExampleInput => entries = <<Entry(0, 4, 0), Entry(4, 6, 1)>>)

\* C3 as claimed: the same input gives [{0,1.5,A},{1.5,3,B}].
C3_Original ==
    ExampleInput => entries = <<Entry(0, 3, 0), Entry(3, 6, 1)>>

\* The example input has been scanned, its last segment by the midpoint rule.
C3_Witness ==
    /\ ExampleInput
    /\ Len(entries) = 2
    /\ entries[1].e = entries[2].s

NonDecreasing(seq) ==
    \A i \in 1 .. (Len(seq) - 1) : seq[i] <= seq[i + 1]

Starts == [i \in 1 .. Len(events) |-> events[i][1]]
Ends   == [i \in 1 .. Len(events) |-> events[i][2]]
WellFormed == \A i \in 1 .. Len(events) : events[i][1] <= events[i][2]

NoNegativeInterval ==
    \A i \in 1 .. Len(entries) :
        /\ entries[i].s <= entries[i].e
        /\ Offset(entries[i]) >= 0

\* C10 (amended): when every segment has start <= end and both the segment
\* end times and the segment start times are non-decreasing, every output
\* interval has s <= e, so the duration rendered for it is not negative.
C10_NonNegative ==
    (WellFormed /\ NonDecreasing(Ends) /\ NonDecreasing(Starts))
        => NoNegativeInterval

\* C10 as claimed: start times unconstrained.
C10_Original ==
    (WellFormed /\ NonDecreasing(Ends)) => NoNegativeInterval

\* Sorted input on which a midpoint closed an interval that itself began at a
\* midpoint.
C10_Witness ==
    /\ WellFormed /\ NonDecreasing(Ends) /\ NonDecreasing(Starts)
    /\ Len(entries) = 3
    /\ entries[2].s % 2 = 1
    /\ entries[2].e = entries[3].s
(***************************************************************************)
(* Specification of the serializer: any list of intervals, rendered once.  *)
(***************************************************************************)
RecNames == {"rec1", "rec2"}
Stamps == 0 .. MaxStamp
Intervals == [s : Stamps, e : Stamps, id : Labels]

RECURSIVE SeqsUpTo(_, _)
SeqsUpTo(S, n) ==
    IF n = 0
    THEN {<<>>}
    ELSE LET shorter == SeqsUpTo(S, n - 1)
         IN  shorter \cup {Append(q, x) : q \in {r \in shorter : Len(r) = n - 1}, x \in S}

InitRttm ==
    /\ rttm_entries \in SeqsUpTo(Intervals, MaxEntries)
    /\ rec_id \in RecNames
    /\ lines = <<>>
    /\ pc = "call"
    /\ MergeIdle /\ EnhIdle /\ CatIdle /\ PipeIdle

Render ==
    /\ pc = "call"
    /\ lines' = rttm_lines_from_entries(rttm_entries, rec_id)
    /\ pc' = "returned"
    /\ UNCHANGED <<rttm_entries, rec_id, mergeVars, enhVars, catVars, pipeVars>>

NextRttm == Render

SpecRttm == InitRttm /\ [][NextRttm]_vars

\* The serializer example of the specification, as text.
RttmExample ==
    RttmLine(Entry(2, 5, 3), "rec1")
        = "SPEAKER rec1 0 1.000 1.500 <NA> <NA> 3 <NA> <NA>\n"

\* C8 (amended): one line per interval, in the order of the intervals; each
\* line is the 10 single-space-separated fields SPEAKER, recording id, 0,
\* start, duration end - start, <NA>, <NA>, label, <NA>, <NA>, newline
\* terminated.
C8_RttmLines ==
    pc = "returned" =>
        /\ Len(lines) = Len(rttm_entries)
        /\ \A i \in 1 .. Len(lines) :
              lines[i] = LineText(<<"SPEAKER", rec_id, "0",
                                    Fmt3(rttm_entries[i].s),
                                    Fmt3(rttm_entries[i].e - rttm_entries[i].s),
                                    "<NA>", "<NA>",
                                    IntStr(rttm_entries[i].id),
                                    "<NA>", "<NA>">>)
        /\ RttmExample

\* C8 as claimed: 9 fields, the label in field 8 followed by one <NA>.
C8_Original ==
    pc = "returned" =>
        /\ Len(lines) = Len(rttm_entries)
        /\ \A i \in 1 .. Len(lines) :
              lines[i] = LineText(<<"SPEAKER", rec_id, "0",
                                    Fmt3(rttm_entries[i].s),
                                    Fmt3(rttm_entries[i].e - rttm_entries[i].s),
                                    "<NA>", "<NA>",
                                    IntStr(rttm_entries[i].id),
                                    "<NA>">>)

\* Two intervals with different non-zero durations have been rendered.
C8_Witness ==
    /\ pc = "returned"
    /\ Len(lines) = 2
    /\ rttm_entries[1].e - rttm_entries[1].s = 1
    /\ rttm_entries[2].e - rttm_entries[2].s = 2
    /\ rttm_entries[2].s > 0
(***************************************************************************)
(* Similarity enhancement (cluster.py 39-59).  A matrix is a sequence of   *)
(* rows.  Entries of the input are non-negative integers, so sym and       *)
(* diffusion are exact; the quotient of the normalization is kept as the   *)
(* fraction n/d, and a division by zero gives what IEEE division gives:    *)
(* 0/0 is nan, x/0 is inf for x > 0.                                       *)
(***************************************************************************)
Dim(m) == Len(m)
Max2(a, b) == IF a >= b THEN a ELSE b

\* np.maximum(matrix, matrix.T)
sym(m) == [i \in 1 .. Dim(m) |-> [j \in 1 .. Dim(m) |-> Max2(m[i][j], m[j][i])]]

RECURSIVE DotFrom(_, _, _)
DotFrom(u, v, k) == IF k > Len(u) THEN 0 ELSE u[k] * v[k] + DotFrom(u, v, k + 1)

\* np.dot(matrix, matrix.T): entry (i, j) is row i times row j.
diffusion(m) == [i \in 1 .. Dim(m) |-> [j \in 1 .. Dim(m) |-> DotFrom(m[i], m[j], 1)]]

RECURSIVE ColMaxFrom(_, _, _)
ColMaxFrom(m, j, k) ==
    IF k = Dim(m) THEN m[k][j] ELSE Max2(m[k][j], ColMaxFrom(m, j, k + 1))

\* np.amax(matrix, axis=0): the maximum of each column.
amax0(m) == [j \in 1 .. Dim(m) |-> ColMaxFrom(m, j, 1)]

\* Float division of two finite values.
Divide(a, b) ==
    IF b # 0 THEN [kind |-> "num", n |-> a, d |-> b]
    ELSE IF a = 0 THEN [kind |-> "nan", n |-> 0, d |-> 0]
    ELSE [kind |-> "inf", n |-> a, d |-> 0]

\* matrix/maxes broadcasts maxes along the rows: entry (i, j) over maxes[j].
row_max_norm(m) ==
    LET maxes == amax0(m)
    IN  [i \in 1 .. Dim(m) |-> [j \in 1 .. Dim(m) |-> Divide(m[i][j], maxes[j])]]

sim_enhancement(m) == row_max_norm(diffusion(sym(m)))

(***************************************************************************)
(* Specification of the enhancer: any small non-negative square matrix.    *)
(***************************************************************************)
Values == 0 .. MaxVal
Matrices == UNION {[1 .. n -> [1 .. n -> Values]] : n \in 1 .. MaxDim}

InitEnh ==
    /\ matrix \in Matrices
    /\ enhanced = <<>>
    /\ pc = "call"
    /\ MergeIdle /\ RttmIdle /\ CatIdle /\ PipeIdle

Enhance ==
    /\ pc = "call"
    /\ enhanced' = sim_enhancement(matrix)
    /\ pc' = "returned"
    /\ UNCHANGED <<matrix, mergeVars, rttmVars, catVars, pipeVars>>

NextEnh == Enhance

SpecEnh == InitEnh /\ [][NextEnh]_vars

NonNegativeNumber(x) == x.kind = "num" /\ x.d > 0 /\ x.n >= 0

\* C9: for every square matrix S with non-negative entries, including one
\* with an all-zero row and column, every entry of sim_enhancement(S) is a
\* non-negative number.
C9_NonNegative ==
    pc = "returned" =>
        \A i \in 1 .. Dim(enhanced), j \in 1 .. Dim(enhanced) :
            NonNegativeNumber(enhanced[i][j])

\* The same for matrices whose symmetrization has no all-zero column.
NoZeroColumn ==
    \A j \in 1 .. Dim(matrix) : \E i \in 1 .. Dim(matrix) :
        matrix[i][j] > 0 \/ matrix[j][i] > 0

EnhNonNegativeUnlessZeroColumn ==
    (pc = "returned" /\ NoZeroColumn) =>
        \A i \in 1 .. Dim(enhanced), j \in 1 .. Dim(enhanced) :
            NonNegativeNumber(enhanced[i][j])
(***************************************************************************)
(* sort_and_cat (cluster.py 140-156).  A line of a file is the sequence of *)
(* its space-separated fields, a field the sequence of its character       *)
(* codes; str.split(' ') of the stripped line returns that sequence.       *)
(* Python orders strings by code points, shorter prefix first.             *)
(***************************************************************************)
RECURSIVE LexLess(_, _)
LexLess(a, b) ==
    IF a = <<>> THEN b # <<>>
    ELSE IF b = <<>> THEN FALSE
    ELSE IF a[1] # b[1] THEN a[1] < b[1]
    ELSE LexLess(Tail(a), Tail(b))

\* Numeric order of the ids: a shorter digit string first.
SortedIds_ByLength(S) ==
    LET Less(a, b) == Len(a) < Len(b) \/ (Len(a) = Len(b) /\ LexLess(a, b))
    IN  CHOOSE q \in [1 .. Cardinality(S) -> S] :
            \A i, j \in 1 .. Cardinality(S) : i < j => Less(q[i], q[j])

\* list(sorted(set(...))) on strings.
SortedIds(S) ==
    CHOOSE q \in [1 .. Cardinality(S) -> S] :
        \A i, j \in 1 .. Cardinality(S) : i < j => LexLess(q[i], q[j])

RECURSIVE Flatten(_)
Flatten(ss) == IF ss = <<>> THEN <<>> ELSE ss[1] \o Flatten(Tail(ss))

\* Lines 143-147: every line of every file, in reading order.
AllRows(paths) == Flatten(paths)

\* zip(*data): as many columns as the shortest row has fields, none if there
\* is no row.
NumColumns(rows) ==
    IF rows = <<>> THEN 0
    ELSE CHOOSE n \in {Len(rows[i]) : i \in 1 .. Len(rows)} :
            \A i \in 1 .. Len(rows) : n <= Len(rows[i])

\* columns[column] for the 0-based index column.
Column(rows, column) == [i \in 1 .. Len(rows) |-> rows[i][column + 1]]

\* all_rows[columns[column] == rid]: boolean-mask selection keeps the order.
RECURSIVE Masked(_, _, _, _)
Masked(rows, keys, rid, i) ==
    IF i > Len(rows) THEN <<>>
    ELSE (IF keys[i] = rid THEN <<rows[i]>> ELSE <<>>) \o Masked(rows, keys, rid, i + 1)

RECURSIVE CatGroups(_, _, _, _)
CatGroups(rows, keys, rec_ids, k) ==
    IF k > Len(rec_ids) THEN <<>>
    ELSE Masked(rows, keys, rec_ids[k], 1) \o CatGroups(rows, keys, rec_ids, k + 1)

\* Lines 148-156, for rows that all have the key column.
sort_and_cat(paths, column) ==
    LET all_rows == AllRows(paths)
        keys     == Column(all_rows, column)
        rec_ids  == SortedIds({keys[i] : i \in 1 .. Len(keys)})
    IN  CatGroups(all_rows, keys, rec_ids, 1)

(***************************************************************************)
(* Specification of the aggregator: a few files of a few lines; the key is *)
(* column 1 (the default).  A blank line has the single empty field.       *)
(***************************************************************************)
KeyColumn == 1

\* Recording ids "10", "9" and "1" as digit codes, payloads "7" and "8".
CatKeys == {<<1, 0>>, <<9>>, <<1>>}
CatLines == {<<<<5>>, k, pl>> : k \in CatKeys, pl \in {<<7>>, <<8>>}} \cup {<< <<>> >>}

\* The ways of cutting a list of lines into n consecutive files.
Cuts(flat, n) ==
    {f \in [1 .. Len(flat) -> 1 .. n] :
        \A i, j \in 1 .. Len(flat) : i < j => f[i] <= f[j]}

RECURSIVE FileOf(_, _, _, _)
FileOf(flat, f, k, i) ==
    IF i > Len(flat) THEN <<>>
    ELSE (IF f[i] = k THEN <<flat[i]>> ELSE <<>>) \o FileOf(flat, f, k, i + 1)

FileLists ==
    {[k \in 1 .. n |-> FileOf(flat, f, k, 1)] :
        <<flat, n, f>> \in
            {<<fl, m, g>> \in SeqsUpTo(CatLines, MaxLines) \X (1 .. MaxFiles)
                                \X UNION {[1 .. l -> 1 .. MaxFiles] : l \in 0 .. MaxLines} :
                g \in Cuts(fl, m)}}

InitCat ==
    /\ rttms \in FileLists
    /\ final_lines = <<>>
    /\ pc = "call"
    /\ MergeIdle /\ RttmIdle /\ EnhIdle /\ PipeIdle

\* columns[column] exists: there is a line, and the shortest has the field.
HasKeyColumn == NumColumns(AllRows(rttms)) > KeyColumn

SortAndCat ==
    /\ pc = "call"
    /\ HasKeyColumn
    /\ final_lines' = sort_and_cat(rttms, KeyColumn)
    /\ pc' = "returned"
    /\ UNCHANGED <<rttms, mergeVars, rttmVars, enhVars, pipeVars>>

\* IndexError on line 151.
SortAndCatRaises ==
    /\ pc = "call"
    /\ ~HasKeyColumn
    /\ pc' = "raised"
    /\ UNCHANGED <<rttms, final_lines, mergeVars, rttmVars, enhVars, pipeVars>>

NextCat == SortAndCat \/ SortAndCatRaises

SpecCat == InitCat /\ [][NextCat]_vars

KeyOf(line) == line[KeyColumn + 1]
WithKey(rows, k) == SelectSeq(rows, LAMBDA l : KeyOf(l) = k)
BagOf(rows) == [l \in {rows[i] : i \in 1 .. Len(rows)} |->
                    Cardinality({i \in 1 .. Len(rows) : rows[i] = l})]

\* C7: the returned list is a permutation of all lines read, the lines of
\* one key value are contiguous, the groups come in ascending lexicographic
\* order of the key, and inside a group the lines keep the order in which
\* they were read (file by file, line by line).
C7_SortAndCat ==
    pc = "returned" =>
        LET read == Flatten(rttms)
        IN  /\ Len(final_lines) = Len(read)
            /\ BagOf(final_lines) = BagOf(read)
            /\ \A i \in 1 .. (Len(final_lines) - 1) :
                  \/ KeyOf(final_lines[i]) = KeyOf(final_lines[i + 1])
                  \/ LexLess(KeyOf(final_lines[i]), KeyOf(final_lines[i + 1]))
            /\ \A k \in CatKeys : WithKey(final_lines, k) = WithKey(read, k)

\* Ids "9", "10", "9" read from two files: "10" sorts first, and the two
\* different lines of "9" keep their reading order.
C7_Witness ==
    /\ pc = "returned"
    /\ Len(rttms) = 2
    /\ Len(rttms[1]) = 2
    /\ KeyOf(rttms[1][1]) = <<9>>
    /\ KeyOf(rttms[1][2]) = <<1, 0>>
    /\ KeyOf(rttms[2][1]) = <<9>>
    /\ rttms[1][1] # rttms[2][1]
    /\ KeyOf(final_lines[1]) = <<1, 0>>
(***************************************************************************)
(* make_rttm and the sweep of __main__ (cluster.py 109-135, 161-185).      *)
(* The clustering libraries are outside the repository: a call returns     *)
(* some label per row of the matrix, or raises.                            *)
(***************************************************************************)
RecIds == {"a", "b", "c"}
ClusterTypes == {"sc", "ahc"}

\* np.linspace(0.95, 1.05, 10) and np.linspace(-2, 2, 9), scaled down.
NumSweep(ct) == IF ct = "sc" THEN SweepLen + 1 ELSE SweepLen

\* Row k of the table is the one-second window starting at second k-1.
RowEvent(k) == <<2 * (k - 1), 2 * k>>
Tables ==
    UNION {{[k \in 1 .. n |-> [rec |-> r[k], ev |-> RowEvent(k)]] : r \in [1 .. n -> RecIds]} :
            n \in 0 .. MaxRows}

\* The glob yields distinct file stems; every matrix has at least one row.
IdLists == {q \in SeqsUpTo(RecIds, MaxRecs) : \A i, j \in 1 .. Len(q) : i # j => q[i] # q[j]}

NoFile == [exists |-> FALSE, content |-> <<>>]
StaleFile == [exists |-> TRUE,
              content |-> <<"SPEAKER old 0 0.000 1.000 <NA> <NA> 0 <NA> <NA>\n">>]

\* Lines 115-116.
RemoveIfFile(file) == IF file.exists THEN NoFile ELSE file

\* Every call opens the file with the default mode "w+".
lines_to_file_Truncating(lns, file, wmode) ==
    [exists |-> TRUE, content |-> lns]

\* Lines 109-112: open(filename, wmode) and write the lines.
lines_to_file(lns, file, wmode) ==
    IF wmode = "a"
    THEN [exists |-> TRUE, content |-> file.content \o lns]
    ELSE [exists |-> TRUE, content |-> lns]

\* Line 119: set(segment_cols[1]).
SegRecordingIds(table) == {table[k].rec : k \in 1 .. Len(table)}

\* The assertion compiled away.
CountsAgree_Unchecked(table, ids) == TRUE

\* Line 121.
CountsAgree(table, ids) == Cardinality(SegRecordingIds(table)) = Len(ids)

\* Lines 126-127: events0[segment_cols[1] == rec_id].
RECURSIVE Ev0From(_, _, _)
Ev0From(table, rid, k) ==
    IF k > Len(table) THEN <<>>
    ELSE (IF table[k].rec = rid THEN <<table[k].ev>> ELSE <<>>) \o Ev0From(table, rid, k + 1)

Ev0(table, rid) == Ev0From(table, rid, 1)

\* The assertion compiled away.
LengthsAgree_Unchecked(size, ev0) == TRUE

\* Line 128.
LengthsAgree(size, ev0) == size = Len(ev0)

\* Lines 61-69 and 71-73: the labels a library call may return for a matrix
\* of the given size.
LabelLists(size) == [1 .. size -> Labels]
spectral_clustering(size) == LabelLists(size)
agg_clustering(size) == LabelLists(size)
PredLabels(ct, size) ==
    IF ct = "sc" THEN spectral_clustering(size) ELSE agg_clustering(size)

InitPipe ==
    /\ segment_cols \in Tables
    /\ cids \in IdLists
    /\ cm \in [1 .. Len(cids) -> 1 .. MaxRows]
    /\ ctype \in ClusterTypes
    /\ files \in {[p \in 1 .. NumSweep(ctype) |-> f] : f \in {NoFile, StaleFile}}
    /\ log = [p \in 1 .. NumSweep(ctype) |-> <<>>]
    /\ sweep_i = 1
    /\ rec_i = 0
    /\ pc = "sweep"
    /\ MergeIdle /\ RttmIdle /\ EnhIdle /\ CatIdle

OthersUnchanged == UNCHANGED <<mergeVars, rttmVars, enhVars, catVars>>

\* Lines 181-185 and 115-123 with the count assertion passing.
MakeRttmEnter ==
    /\ pc = "sweep"
    /\ sweep_i <= NumSweep(ctype)
    /\ files' = [files EXCEPT ![sweep_i] = RemoveIfFile(@)]
    /\ CountsAgree(segment_cols, cids)
    /\ rec_i' = 1
    /\ pc' = "loop"
    /\ UNCHANGED <<inputVars, sweep_i, log>>
    /\ OthersUnchanged

\* Lines 115-121 with the count assertion failing: nothing catches it.
MakeRttmCountRaises ==
    /\ pc = "sweep"
    /\ sweep_i <= NumSweep(ctype)
    /\ files' = [files EXCEPT ![sweep_i] = RemoveIfFile(@)]
    /\ ~CountsAgree(segment_cols, cids)
    /\ pc' = "raised"
    /\ UNCHANGED <<inputVars, sweep_i, rec_i, log>>
    /\ OthersUnchanged

\* Lines 125-135: one recording clustered, merged, rendered and appended.
ProcessRecording ==
    /\ pc = "loop"
    /\ rec_i <= Len(cids)
    /\ LET rid == cids[rec_i]
           ev0 == Ev0(segment_cols, rid)
       IN  /\ LengthsAgree(cm[rec_i], ev0)
           /\ \E labels \in PredLabels(ctype, cm[rec_i]) :
                 LET lns == rttm_lines_from_entries(assign_segments(labels, ev0), rid)
                 IN  /\ files' = [files EXCEPT ![sweep_i] = lines_to_file(lns, @, "a")]
                     /\ log' = [log EXCEPT ![sweep_i] =
                                    Append(@, [rec |-> rid, lines |-> lns])]
    /\ rec_i' = rec_i + 1
    /\ UNCHANGED <<inputVars, sweep_i, pc>>
    /\ OthersUnchanged

\* Line 128 failing.
LengthRaises ==
    /\ pc = "loop"
    /\ rec_i <= Len(cids)
    /\ ~LengthsAgree(cm[rec_i], Ev0(segment_cols, cids[rec_i]))
    /\ pc' = "raised"
    /\ UNCHANGED <<inputVars, files, sweep_i, rec_i, log>>
    /\ OthersUnchanged

\* Lines 129-132: the library call raises (no cluster selected, singular input).
ClusteringRaises ==
    /\ pc = "loop"
    /\ rec_i <= Len(cids)
    /\ LengthsAgree(cm[rec_i], Ev0(segment_cols, cids[rec_i]))
    /\ pc' = "raised"
    /\ UNCHANGED <<inputVars, files, sweep_i, rec_i, log>>
    /\ OthersUnchanged

\* The loop of line 125 is exhausted: make_rttm returns, the sweep moves on.
MakeRttmReturn ==
    /\ pc = "loop"
    /\ rec_i > Len(cids)
    /\ sweep_i' = sweep_i + 1
    /\ rec_i' = 0
    /\ pc' = IF sweep_i = NumSweep(ctype) THEN "done" ELSE "sweep"
    /\ UNCHANGED <<inputVars, files, log>>
    /\ OthersUnchanged

Next ==
    \/ MakeRttmEnter
    \/ MakeRttmCountRaises
    \/ ProcessRecording
    \/ LengthRaises
    \/ ClusteringRaises
    \/ MakeRttmReturn

Spec == InitPipe /\ [][Next]_vars

\* Ranges of the control variables of the sweep.
PipeTypeOK ==
    /\ pc \in {"sweep", "loop", "raised", "done"}
    /\ sweep_i \in 1 .. (NumSweep(ctype) + 1)
    /\ rec_i \in 0 .. (Len(cids) + 1)
(***************************************************************************)
(* Properties of make_rttm and the sweep                                   *)
(***************************************************************************)
LoggedLines(calls) == Flatten([i \in 1 .. Len(calls) |-> calls[i].lines])

\* The lines are the RTTM lines of recording rid under some labelling.
IsRttmOf(lns, rid, size) ==
    \E labels \in LabelLists(size) :
        lns = rttm_lines_from_entries(
                  assign_segments(labels, Ev0(segment_cols, rid)), rid)

Completed(p) == p < sweep_i
Running(p) == p = sweep_i /\ pc = "loop"

\* C4: once make_rttm has returned for a path, the file holds exactly the
\* lines of every recording, each once, in the order of iteration, and
\* nothing of what it held before the call; while the call runs the file
\* holds exactly the lines written so far (every write appends).
C4_CumulativeFile ==
    \A p \in DOMAIN files :
        /\ (Completed(p) \/ Running(p)) =>
              /\ files[p].content = LoggedLines(log[p])
              /\ \A i \in 1 .. Len(log[p]) :
                    /\ i <= Len(cids)
                    /\ log[p][i].rec = cids[i]
                    /\ IsRttmOf(log[p][i].lines, cids[i], cm[i])
        /\ Completed(p) => Len(log[p]) = Len(cids)
        /\ Running(p) => Len(log[p]) = rec_i - 1

\* make_rttm returned for the first path, which held old content like the
\* second still does, after appending lines for two recordings.
C4_Witness ==
    /\ sweep_i = 2
    /\ pc = "sweep"
    /\ files[2] = StaleFile
    /\ Len(log[1]) = 2
    /\ log[1][1].lines # <<>>
    /\ log[1][2].lines # <<>>

CountMismatch == Cardinality(SegRecordingIds(segment_cols)) # Len(cids)
SetsDiffer == SegRecordingIds(segment_cols) # {cids[i] : i \in 1 .. Len(cids)}

NothingAppended ==
    \A p \in DOMAIN files :
        /\ log[p] = <<>>
        /\ files[p] \in {NoFile, StaleFile}

\* C5: when the number of distinct recording ids of the segment table
\* differs from the number of matrices, make_rttm raises on its first call
\* before any recording is clustered and before any line is appended, and
\* the run halts there: no later sweep value and no recording is processed.
C5_CountMismatchHalts ==
    CountMismatch =>
        /\ pc \in {"sweep", "raised"}
        /\ sweep_i = 1
        /\ rec_i = 0
        /\ NothingAppended
        /\ pc = "sweep" => (ENABLED MakeRttmCountRaises /\ ~ENABLED MakeRttmEnter)
        /\ pc = "raised" => ~ENABLED Next

\* The assertion has fired with matrices loaded and a second sweep value,
\* whose file is untouched, still to come.
C5_Witness ==
    /\ CountMismatch
    /\ pc = "raised"
    /\ Len(cids) >= 1
    /\ segment_cols # <<>>
    /\ NumSweep(ctype) > 1
    /\ files[1] = NoFile
    /\ files[2] = StaleFile

\* The first position of cids whose id the segment table does not have.
FirstAbsent ==
    CHOOSE k \in 1 .. Len(cids) :
        /\ cids[k] \notin SegRecordingIds(segment_cols)
        /\ \A i \in 1 .. (k - 1) : cids[i] \in SegRecordingIds(segment_cols)

\* C6 (amended): make_rttm compares only the sizes of the two sets.  When
\* the sizes differ it fails without appending a line.  When the sets differ
\* with equal sizes, some matrix id is absent from the segment table; the
\* matrix of the first such id being non-empty, make_rttm fails at that id
\* by the length assertion at the latest, after appending the lines of the
\* recordings that precede it, and never returns.
C6_OnlyCountsChecked ==
    SetsDiffer =>
        IF CountMismatch
        THEN /\ pc \in {"sweep", "raised"}
             /\ NothingAppended
        ELSE /\ \E k \in 1 .. Len(cids) : cids[k] \notin SegRecordingIds(segment_cols)
             /\ sweep_i = 1
             /\ pc # "done"
             /\ rec_i <= FirstAbsent
             /\ Len(log[1]) <= FirstAbsent - 1
             /\ (pc = "loop" /\ rec_i = FirstAbsent) =>
                   (ENABLED LengthRaises /\ ~ENABLED ProcessRecording)

\* C6 as claimed: whenever the two sets differ, make_rttm fails and no RTTM
\* line is ever appended.
C6_Original ==
    SetsDiffer =>
        /\ sweep_i = 1
        /\ pc # "done"
        /\ NothingAppended

\* Sets of equal size that differ: the length assertion has fired at the
\* second recording, after the lines of the first were appended.
C6_Witness ==
    /\ SetsDiffer
    /\ ~CountMismatch
    /\ pc = "raised"
    /\ rec_i = 2
    /\ files[1].content # <<>>
    /\ files[1].content = LoggedLines(log[1])
====
